---- MODULE Spec2Model ----
(***************************************************************************)
(* download_netcdf (src/download_satellite_image.py) as a state machine.   *)
(*                                                                         *)
(* A datetime is the number of minutes since 2024-01-01T00:00, a timedelta *)
(* a number of minutes.  The remote services (catalogue search, Data       *)
(* Tailor customisations) are the environment: every call may raise, a     *)
(* search finds a product or none, a status poll answers one of the eight  *)
(* statuses.  The wall clock `now` counts ticks: it advances while the     *)
(* program sleeps between polls and while a search is answered.            *)
(***************************************************************************)
EXTENDS Integers, Sequences, FiniteSets, TLC

\* ------------------------------------------------------------------ bounds
MaxSteps == 2      \* planned time steps per run
MaxPolls == 2      \* QUEUED / RUNNING answers per run
MaxErrors == 2     \* error-class answers per run
MaxRaises == 2     \* calls that raise per run
SearchTicks == 1   \* ticks a catalogue search takes
BackoffPolls == 6  \* QUEUED / RUNNING answers in a run with a slow service

\* ------------------------------------------------------- program constants
InitialSleep == 5
MaxSleep == 10
WindowMinutes == 5

ErrorStatuses == {"ERROR", "FAILED", "DELETED", "KILLED", "INACTIVE"}
Statuses == {"QUEUED", "RUNNING", "DONE"} \cup ErrorStatuses

\* ---------------------------------------------------------------- calendar
IsLeap(y) == (y % 4 = 0 /\ y % 100 # 0) \/ y % 400 = 0

DaysInMonth(y, m) ==
    IF m = 2 THEN (IF IsLeap(y) THEN 29 ELSE 28)
    ELSE IF m \in {4, 6, 9, 11} THEN 30 ELSE 31

RECURSIVE YMD(_, _, _)
\* the date d days after the first day of month m of year y
YMD(y, m, d) ==
    IF d < DaysInMonth(y, m) THEN <<y, m, d + 1>>
    ELSE IF m = 12 THEN YMD(y + 1, 1, d - DaysInMonth(y, m))
    ELSE YMD(y, m + 1, d - DaysInMonth(y, m))

DateOf(t) == YMD(2024, 1, t \div 1440)

\* f"{t.year}-{t.month:02d}" and f"{t.year}-{t.month:02d}-{t.day:02d}"
MonthKey(t) == <<DateOf(t)[1], DateOf(t)[2]>>
DayKey(t) == DateOf(t)

\* t.replace(minute=0, second=0)
ReplaceMinute0(t) == t - (t % 60)

\* the datetime of day-of-year d (1 = 1 January 2024), hh:mm
At(d, hh, mm) == (d - 1) * 1440 + hh * 60 + mm

\* ------------------------------------------------------------------ inputs
Starts == {At(30, 23, 0), At(31, 23, 30)}
Intervals == {-30, 0, 30, 60}
Spans == {-30, 0, 60, 90}

\* What the environment may do in one run: how many calls raise, how many
\* polls answer an error-class status, how many answer QUEUED or RUNNING.
Budgets ==
    {[raises |-> MaxRaises, errors |-> 0, waits |-> 0, runs |-> 0],
     [raises |-> 0, errors |-> MaxErrors, waits |-> 0, runs |-> 0],
     [raises |-> 0, errors |-> 0, waits |-> MaxPolls, runs |-> MaxPolls],
     [raises |-> 1, errors |-> 1, waits |-> 1, runs |-> 1]}

VARIABLES
    start, end, step,            \* the arguments of download_netcdf
    pc,                          \* the position in download_netcdf
    now,                         \* time.time()
    time_steps, current_time, idx,
    month_key, day_key,
    overall_pbar, current_month_progress, current_day_progress,
    closed_bars,                 \* the bars close() was called on, in order
    month_times, day_times, day_start_time, step_start_time,
    failed_customisations,
    dtstart, dtend,
    customisation, sleep_time, status, nc_files, file_pos,
    \* the remote service
    next_id, live, submitted, outputs,
    polled,                      \* the statuses answered, with the job asked
    \* the destination folder
    downloaded,
    \* what the environment may still do, what became of each time step and
    \* how long its processing took, how often each timing bucket was written
    budget, outcomes, spent, month_incs, day_incs,
    report                       \* what the summary printed

vars == <<start, end, step, pc, now, time_steps, current_time, idx,
          month_key, day_key, overall_pbar, current_month_progress,
          current_day_progress, closed_bars, month_times, day_times,
          day_start_time, step_start_time, failed_customisations,
          dtstart, dtend, customisation, sleep_time, status, nc_files, file_pos,
          next_id, live, submitted, outputs, downloaded,
          polled, budget, outcomes, spent, month_incs, day_incs, report>>

inputVars == <<start, end, step>>
planVars == <<time_steps, current_time, idx>>
keyVars == <<month_key, day_key>>
barVars == <<overall_pbar, current_month_progress, current_day_progress, closed_bars>>
timingVars == <<month_times, day_times, day_start_time, step_start_time,
                month_incs, day_incs>>
jobVars == <<customisation, sleep_time, status, nc_files, file_pos>>
remoteVars == <<next_id, live, submitted, outputs>>
windowVars == <<dtstart, dtend>>

\* ----------------------------------------------------------------- helpers
None == [desc |-> <<>>, n |-> 0, total |-> 0]

\* tqdm(total=..., desc=...)
Tqdm(total, desc) == [desc |-> desc, n |-> 0, total |-> total]

\* bar.update(1)
Update(bar) == [bar EXCEPT !.n = @ + 1]

\* bar.desc.split()[-1]
DescKey(bar) == bar.desc[Len(bar.desc)]

\* MonthStepsIn counting every planned time step
MonthStepsInAll(k) == Len(time_steps)

\* len([t for t in time_steps if f"{t.year}-{t.month:02d}" == month_key])
MonthStepsIn(k) ==
    Cardinality({j \in 1..Len(time_steps) : MonthKey(time_steps[j]) = k})

\* len([t for t in time_steps if f"{t.year}-{t.month:02d}-{t.day:02d}" == day_key])
DayStepsIn(k) ==
    Cardinality({j \in 1..Len(time_steps) : DayKey(time_steps[j]) = k})

\* d[k] += v on a defaultdict(float)
AddTo(d, k, v) ==
    IF k \in DOMAIN d THEN [d EXCEPT ![k] = @ + v] ELSE d @@ (k :> v)

\* d[k] = v
Store(d, k, v) ==
    IF k \in DOMAIN d THEN [d EXCEPT ![k] = v] ELSE d @@ (k :> v)

Bump(c, k) == AddTo(c, k, 1)

\* ---------------------------------------------------------------- planner
PlanContinueOffByOne(c, e) == c <= e

\* while current_time < end
PlanContinue(c, e) == c < e

\* lines 38-57: the state before the planning loop, nothing processed yet
Fresh ==
    /\ pc = "plan"
    /\ now = 0
    /\ time_steps = <<>>
    /\ current_time = start
    /\ idx = 0
    /\ month_key = <<>>
    /\ day_key = <<>>
    /\ overall_pbar = None
    /\ current_month_progress = None
    /\ current_day_progress = None
    /\ closed_bars = <<>>
    /\ month_times = <<>>
    /\ day_times = <<>>
    /\ day_start_time = 0
    /\ step_start_time = 0
    /\ failed_customisations = <<>>
    /\ dtstart = 0
    /\ dtend = 0
    /\ customisation = 0
    /\ sleep_time = 0
    /\ status = "NONE"
    /\ nc_files = <<>>
    /\ file_pos = 0
    /\ next_id = 1
    /\ live = {}
    /\ submitted = <<>>
    /\ outputs = <<>>
    /\ downloaded = <<>>
    /\ polled = <<>>
    /\ outcomes = <<>>
    /\ spent = <<>>
    /\ month_incs = <<>>
    /\ day_incs = <<>>
    /\ report = <<>>

Init ==
    /\ start \in Starts
    /\ step \in Intervals
    /\ end \in {start + d : d \in Spans}
    /\ (step > 0 /\ start < end) => (end - start <= MaxSteps * step)
    /\ budget \in Budgets
    /\ Fresh

\* lines 40-42: one pass of the planning loop
PlanStep ==
    /\ pc = "plan"
    /\ PlanContinue(current_time, end)
    /\ Len(time_steps) < MaxSteps
    /\ time_steps' = Append(time_steps, current_time)
    /\ current_time' = current_time + step
    /\ UNCHANGED <<inputVars, pc, now, idx, keyVars, barVars, timingVars,
                   failed_customisations, windowVars, jobVars, remoteVars,
                   downloaded, budget, polled, outcomes, spent, report>>

\* lines 40, 45-57: the planning loop ends, the overall bar is opened
PlanExit ==
    /\ pc = "plan"
    /\ ~PlanContinue(current_time, end)
    /\ overall_pbar' = Tqdm(Len(time_steps), <<"Overall", "Progress">>)
    /\ pc' = "for"
    /\ UNCHANGED <<inputVars, now, planVars, keyVars, current_month_progress,
                   current_day_progress, closed_bars, timingVars,
                   failed_customisations, windowVars, jobVars, remoteVars,
                   downloaded, budget, polled, outcomes, spent, report>>

\* ------------------------------------------------------- the main loop
\* lines 59-90: the next time step is taken, the month and day bars are
\* replaced when the key changes, the clocks of the day and the step start
ForNext ==
    /\ pc = "for"
    /\ idx < Len(time_steps)
    /\ LET t == time_steps[idx + 1]
           mk == MonthKey(t)
           dk == DayKey(t)
           newMonth == \/ current_month_progress = None
                       \/ mk # DescKey(current_month_progress)
           newDay == \/ current_day_progress = None
                     \/ dk # DescKey(current_day_progress)
           closeMonth == newMonth /\ current_month_progress # None
           closeDay == newDay /\ current_day_progress # None
       IN  /\ idx' = idx + 1
           /\ current_time' = t
           /\ month_key' = mk
           /\ day_key' = dk
           /\ current_month_progress' =
                 IF newMonth THEN Tqdm(MonthStepsIn(mk), <<"Month", mk>>)
                 ELSE current_month_progress
           /\ current_day_progress' =
                 IF newDay THEN Tqdm(DayStepsIn(dk), <<"Day", dk>>)
                 ELSE current_day_progress
           /\ closed_bars' = closed_bars
                 \o (IF closeMonth THEN <<current_month_progress>> ELSE <<>>)
                 \o (IF closeDay THEN <<current_day_progress>> ELSE <<>>)
           /\ day_times' = IF closeDay THEN Store(day_times, dk, now - day_start_time)
                           ELSE day_times
           /\ day_incs' = IF closeDay THEN Bump(day_incs, dk) ELSE day_incs
           /\ day_start_time' = IF newDay THEN now ELSE day_start_time
    /\ step_start_time' = now
    /\ pc' = "search"
    /\ UNCHANGED <<inputVars, now, time_steps, overall_pbar, month_times, month_incs,
                   failed_customisations, windowVars, jobVars, remoteVars,
                   downloaded, budget, polled, outcomes, spent, report>>

\* lines 189-197: the loop is exhausted, the last day and month bars close
ForExit ==
    /\ pc = "for"
    /\ idx = Len(time_steps)
    /\ IF current_day_progress # None
       THEN /\ day_times' = Store(day_times, day_key, now - day_start_time)
            /\ day_incs' = Bump(day_incs, day_key)
       ELSE UNCHANGED <<day_times, day_incs>>
    /\ closed_bars' = closed_bars
          \o (IF current_day_progress # None THEN <<current_day_progress>> ELSE <<>>)
          \o (IF current_month_progress # None THEN <<current_month_progress>> ELSE <<>>)
          \o <<overall_pbar>>
    /\ pc' = "report"
    /\ UNCHANGED <<inputVars, now, planVars, keyVars, overall_pbar,
                   current_month_progress, current_day_progress, month_times,
                   month_incs, day_start_time, step_start_time,
                   failed_customisations, windowVars, jobVars, remoteVars,
                   downloaded, budget, polled, outcomes, spent, report>>

\* lines 93-94: the search window of a time step
SearchWindow(t) ==
    <<ReplaceMinute0(t) - WindowMinutes, ReplaceMinute0(t) + WindowMinutes>>

\* SearchEmpty without overall_pbar.update(1)
SearchEmptyNoOverall ==
    /\ pc = "search"
    /\ now' = now + SearchTicks
    /\ dtstart' = ReplaceMinute0(current_time) - WindowMinutes
    /\ dtend' = ReplaceMinute0(current_time) + WindowMinutes
    /\ current_month_progress' = Update(current_month_progress)
    /\ current_day_progress' = Update(current_day_progress)
    /\ outcomes' = Append(outcomes, "no_product")
    /\ spent' = Append(spent, now' - step_start_time)
    /\ pc' = "for"
    /\ UNCHANGED <<inputVars, planVars, keyVars, overall_pbar, closed_bars,
                   timingVars, failed_customisations, jobVars, remoteVars,
                   polled, downloaded, budget, report>>

\* lines 93-105: the search finds nothing; the bars are updated and the loop
\* continues with the next time step
SearchEmpty ==
    /\ pc = "search"
    /\ now' = now + SearchTicks
    /\ dtstart' = SearchWindow(current_time)[1]
    /\ dtend' = SearchWindow(current_time)[2]
    /\ current_month_progress' = Update(current_month_progress)
    /\ current_day_progress' = Update(current_day_progress)
    /\ overall_pbar' = Update(overall_pbar)
    /\ outcomes' = Append(outcomes, "no_product")
    /\ spent' = Append(spent, now' - step_start_time)
    /\ pc' = "for"
    /\ UNCHANGED <<inputVars, planVars, keyVars, closed_bars, timingVars,
                   failed_customisations, jobVars, remoteVars, downloaded,
                   budget, polled, report>>

\* lines 93-99: the search finds a product
SearchFound ==
    /\ pc = "search"
    /\ now' = now + SearchTicks
    /\ dtstart' = SearchWindow(current_time)[1]
    /\ dtend' = SearchWindow(current_time)[2]
    /\ pc' = "submit"
    /\ UNCHANGED <<inputVars, planVars, keyVars, barVars, timingVars,
                   failed_customisations, jobVars, remoteVars, downloaded,
                   budget, polled, outcomes, spent, report>>

\* datatailor.new_customisation(products[0], chain)
NewCustomisation ==
    /\ customisation' = next_id
    /\ next_id' = next_id + 1
    /\ live' = live \cup {next_id}
    /\ submitted' = Append(submitted, <<current_time, next_id>>)
    /\ UNCHANGED outputs

\* customisation.delete()
DeleteCustomisation ==
    /\ live' = live \ {customisation}
    /\ UNCHANGED <<next_id, submitted, outputs>>

\* lines 108-112: the first customisation of the time step
Submit ==
    /\ pc = "submit"
    /\ NewCustomisation
    /\ sleep_time' = InitialSleep
    /\ pc' = "poll"
    /\ UNCHANGED <<inputVars, now, planVars, keyVars, barVars, timingVars,
                   failed_customisations, windowVars, status, nc_files, file_pos,
                   downloaded, budget, polled, outcomes, spent, report>>

\* PollQueued with a wait that grows without limit
PollQueuedUncapped ==
    /\ pc = "poll"
    /\ budget.waits > 0
    /\ status' = "QUEUED"
    /\ sleep_time' = sleep_time + 1
    /\ now' = now + sleep_time'
    /\ budget' = [budget EXCEPT !.waits = @ - 1]
    /\ polled' = Append(polled, <<customisation, "QUEUED">>)
    /\ UNCHANGED <<inputVars, pc, planVars, keyVars, barVars, timingVars,
                   failed_customisations, windowVars, customisation, nc_files,
                   file_pos, remoteVars, downloaded, outcomes, spent, report>>

\* lines 115-129, 161-164: the status is QUEUED; the wait grows, then sleep
PollQueued ==
    /\ pc = "poll"
    /\ budget.waits > 0
    /\ status' = "QUEUED"
    /\ sleep_time' = IF sleep_time + 1 < MaxSleep THEN sleep_time + 1 ELSE MaxSleep
    /\ now' = now + sleep_time'
    /\ budget' = [budget EXCEPT !.waits = @ - 1]
    /\ polled' = Append(polled, <<customisation, "QUEUED">>)
    /\ UNCHANGED <<inputVars, pc, planVars, keyVars, barVars, timingVars,
                   failed_customisations, windowVars, customisation, nc_files,
                   file_pos, remoteVars, downloaded, outcomes, spent, report>>

\* lines 115-129, 163-164: the status is RUNNING; sleep
PollRunning ==
    /\ pc = "poll"
    /\ budget.waits > 0
    /\ budget.runs > 0
    /\ status' = "RUNNING"
    /\ now' = now + sleep_time
    /\ budget' = [budget EXCEPT !.waits = @ - 1, !.runs = @ - 1]
    /\ polled' = Append(polled, <<customisation, "RUNNING">>)
    /\ UNCHANGED <<inputVars, pc, planVars, keyVars, barVars, timingVars,
                   failed_customisations, windowVars, customisation, sleep_time,
                   nc_files, file_pos, remoteVars, downloaded, outcomes, spent, report>>

\* the artifact lists a customisation may have: names by extension
OutputLists ==
    {<<"xml">>, <<"nc">>, <<"xml", "nc">>, <<"nc", "nc">>}

\* [file for file in customisation.outputs if file.endswith(".nc")], each
\* file named by its place in the outputs
NcFiles(outs) ==
    LET RECURSIVE Pick(_)
        Pick(j) == IF j > Len(outs) THEN <<>>
                   ELSE (IF outs[j] = "nc" THEN <<j>> ELSE <<>>) \o Pick(j + 1)
    IN  Pick(1)

\* lines 115-138: the status is DONE; the NetCDF outputs are listed
PollDone ==
    /\ pc = "poll"
    /\ status' = "DONE"
    /\ \E outs \in OutputLists :
          /\ outputs' = outputs @@ (customisation :> outs)
          /\ nc_files' = NcFiles(outs)
    /\ file_pos' = 0
    /\ pc' = IF nc_files' = <<>> THEN "delete" ELSE "download"
    /\ polled' = Append(polled, <<customisation, "DONE">>)
    /\ UNCHANGED <<inputVars, now, planVars, keyVars, barVars, timingVars,
                   failed_customisations, windowVars, customisation, sleep_time,
                   next_id, live, submitted, downloaded, budget, outcomes, spent,
                   report>>

\* lines 140-145: one NetCDF file is copied to the destination folder
DownloadFile ==
    /\ pc = "download"
    /\ file_pos < Len(nc_files)
    /\ downloaded' = Append(downloaded,
                            <<current_time, customisation, nc_files[file_pos + 1]>>)
    /\ file_pos' = file_pos + 1
    /\ pc' = IF file_pos' = Len(nc_files) THEN "delete" ELSE "download"
    /\ UNCHANGED <<inputVars, now, planVars, keyVars, barVars, timingVars,
                   failed_customisations, windowVars, customisation, sleep_time,
                   status, nc_files, remoteVars, budget, polled, outcomes, spent,
                   report>>

\* lines 166-170: the customisation is deleted after the data retrieval
FinalDelete ==
    /\ pc = "delete"
    /\ DeleteCustomisation
    /\ outcomes' = Append(outcomes, "completed")
    /\ spent' = Append(spent, now - step_start_time)
    /\ pc' = "step_end"
    /\ UNCHANGED <<inputVars, now, planVars, keyVars, barVars, timingVars,
                   failed_customisations, windowVars, jobVars, downloaded,
                   budget, polled, report>>

\* PollError recording the status FAILED alone
PollErrorOnlyFailed ==
    /\ pc = "poll"
    /\ budget.errors > 0
    /\ budget' = [budget EXCEPT !.errors = @ - 1]
    /\ \E s \in ErrorStatuses :
          /\ status' = s
          /\ failed_customisations' =
                IF s = "FAILED"
                THEN Append(failed_customisations, <<current_time, customisation, s>>)
                ELSE failed_customisations
          /\ polled' = Append(polled, <<customisation, s>>)
    /\ pc' = "retry_delete"
    /\ UNCHANGED <<inputVars, now, planVars, keyVars, barVars, timingVars,
                   windowVars, customisation, sleep_time, nc_files, file_pos,
                   remoteVars, downloaded, outcomes, spent, report>>

\* PollError leaving the polling loop after the status is recorded
PollErrorGivesUp ==
    /\ pc = "poll"
    /\ budget.errors > 0
    /\ budget' = [budget EXCEPT !.errors = @ - 1]
    /\ \E s \in ErrorStatuses :
          /\ status' = s
          /\ failed_customisations' =
                Append(failed_customisations, <<current_time, customisation, s>>)
          /\ polled' = Append(polled, <<customisation, s>>)
    /\ pc' = "delete"
    /\ UNCHANGED <<inputVars, now, planVars, keyVars, barVars, timingVars,
                   windowVars, customisation, sleep_time, nc_files, file_pos,
                   remoteVars, downloaded, outcomes, spent, report>>

\* PollError recording the identifier of the replacement job
PollErrorRecordsReplacement ==
    /\ pc = "poll"
    /\ budget.errors > 0
    /\ budget' = [budget EXCEPT !.errors = @ - 1]
    /\ \E s \in ErrorStatuses :
          /\ status' = s
          /\ failed_customisations' =
                Append(failed_customisations, <<current_time, next_id, s>>)
          /\ polled' = Append(polled, <<customisation, s>>)
    /\ pc' = "retry_delete"
    /\ UNCHANGED <<inputVars, now, planVars, keyVars, barVars, timingVars,
                   windowVars, customisation, sleep_time, nc_files, file_pos,
                   remoteVars, downloaded, outcomes, spent, report>>

\* lines 146-149: the status is of the error class; it is recorded
PollError ==
    /\ pc = "poll"
    /\ budget.errors > 0
    /\ budget' = [budget EXCEPT !.errors = @ - 1]
    /\ \E s \in ErrorStatuses :
          /\ status' = s
          /\ failed_customisations' =
                Append(failed_customisations, <<current_time, customisation, s>>)
          /\ polled' = Append(polled, <<customisation, s>>)
    /\ pc' = "retry_delete"
    /\ UNCHANGED <<inputVars, now, planVars, keyVars, barVars, timingVars,
                   windowVars, customisation, sleep_time, nc_files, file_pos,
                   remoteVars, downloaded, outcomes, spent, report>>

\* RetryDelete leaving the failed customisation on the service
RetryDeleteSkipped ==
    /\ pc = "retry_delete"
    /\ pc' = "retry_submit"
    /\ UNCHANGED <<inputVars, now, planVars, keyVars, barVars, timingVars,
                   failed_customisations, windowVars, jobVars, remoteVars,
                   downloaded, budget, polled, outcomes, spent, report>>

\* lines 152-155: the failed customisation is deleted
RetryDelete ==
    /\ pc = "retry_delete"
    /\ DeleteCustomisation
    /\ pc' = "retry_submit"
    /\ UNCHANGED <<inputVars, now, planVars, keyVars, barVars, timingVars,
                   failed_customisations, windowVars, jobVars, downloaded,
                   budget, polled, outcomes, spent, report>>

\* RetrySubmit giving up after two failed customisations of a time step
RetrySubmitCapped ==
    /\ pc = "retry_submit"
    /\ Cardinality({j \in 1..Len(failed_customisations) :
                       failed_customisations[j][1] = current_time}) < 2
    /\ NewCustomisation
    /\ pc' = "poll"
    /\ UNCHANGED <<inputVars, now, planVars, keyVars, barVars, timingVars,
                   failed_customisations, windowVars, sleep_time, status,
                   nc_files, file_pos, downloaded, budget, polled, outcomes, spent,
                   report>>

\* lines 157-159: a new customisation replaces it; back to the poll
RetrySubmit ==
    /\ pc = "retry_submit"
    /\ NewCustomisation
    /\ pc' = "poll"
    /\ UNCHANGED <<inputVars, now, planVars, keyVars, barVars, timingVars,
                   failed_customisations, windowVars, sleep_time, status,
                   nc_files, file_pos, downloaded, budget, polled, outcomes, spent,
                   report>>

\* the positions inside the try block where a remote or file call is made
CallSites == {"search", "submit", "poll", "download", "delete",
              "retry_delete", "retry_submit"}

\* lines 92-170: a call inside the try block raises
Raise ==
    /\ pc \in CallSites
    /\ budget.raises > 0
    /\ budget' = [budget EXCEPT !.raises = @ - 1]
    /\ IF pc = "search"
       THEN /\ dtstart' = SearchWindow(current_time)[1]
            /\ dtend' = SearchWindow(current_time)[2]
       ELSE UNCHANGED windowVars
    /\ pc' = "except"
    /\ UNCHANGED <<inputVars, now, planVars, keyVars, barVars, timingVars,
                   failed_customisations, jobVars, remoteVars, downloaded,
                   polled, outcomes, spent, report>>

\* Except going back to the search of the same time step
ExceptRetriesStep ==
    /\ pc = "except"
    /\ pc' = "search"
    /\ UNCHANGED <<inputVars, now, planVars, keyVars, barVars, timingVars,
                   failed_customisations, windowVars, jobVars, remoteVars,
                   polled, downloaded, budget, outcomes, spent, report>>

\* Except raising the exception again: the run ends there
ExceptReraises ==
    /\ pc = "except"
    /\ pc' = "aborted"
    /\ UNCHANGED <<inputVars, now, planVars, keyVars, barVars, timingVars,
                   failed_customisations, windowVars, jobVars, remoteVars,
                   polled, downloaded, budget, outcomes, spent, report>>

\* lines 172-177: the exception is caught and logged
Except ==
    /\ pc = "except"
    /\ outcomes' = Append(outcomes, "abandoned")
    /\ spent' = Append(spent, now - step_start_time)
    /\ pc' = "step_end"
    /\ UNCHANGED <<inputVars, now, planVars, keyVars, barVars, timingVars,
                   failed_customisations, windowVars, jobVars, remoteVars,
                   downloaded, budget, polled, report>>

\* lines 179-187: the step time goes to the month, the bars are updated
StepEnd ==
    /\ pc = "step_end"
    /\ month_times' = AddTo(month_times, month_key, now - step_start_time)
    /\ month_incs' = Bump(month_incs, month_key)
    /\ current_month_progress' = Update(current_month_progress)
    /\ current_day_progress' = Update(current_day_progress)
    /\ overall_pbar' = Update(overall_pbar)
    /\ pc' = "for"
    /\ UNCHANGED <<inputVars, now, planVars, keyVars, closed_bars, day_times,
                   day_incs, day_start_time, step_start_time,
                   failed_customisations, windowVars, jobVars, remoteVars,
                   downloaded, budget, polled, outcomes, spent>>
    /\ UNCHANGED report

\* ------------------------------------------------------------- the report
\* a < b for the keys as the strings they are printed as
KeyLess(a, b) ==
    \E j \in 1..Len(a) : a[j] < b[j] /\ \A h \in 1..(j - 1) : a[h] = b[h]

\* sorted(d.items())
RECURSIVE SortedItems(_)
SortedItems(d) ==
    IF DOMAIN d = {} THEN <<>>
    ELSE LET k == CHOOSE x \in DOMAIN d : \A y \in DOMAIN d \ {x} : KeyLess(x, y)
             rest == [y \in DOMAIN d \ {k} |-> d[y]]
         IN  <<<<k, d[k]>>>> \o SortedItems(rest)

\* sum(d.values())
RECURSIVE SumValues(_)
SumValues(d) ==
    IF DOMAIN d = {} THEN 0
    ELSE LET k == CHOOSE x \in DOMAIN d : TRUE
         IN  d[k] + SumValues([y \in DOMAIN d \ {k} |-> d[y]])

\* Report with the grand total taken from the day buckets
ReportTotalFromDays ==
    /\ pc = "report"
    /\ report' = [months |-> SortedItems(month_times),
                  days |-> SortedItems(day_times),
                  total |-> SumValues(day_times),
                  failures |-> failed_customisations,
                  no_failures |-> (failed_customisations = <<>>)]
    /\ pc' = "done"
    /\ UNCHANGED <<inputVars, now, planVars, keyVars, barVars, timingVars,
                   failed_customisations, windowVars, jobVars, remoteVars,
                   downloaded, budget, polled, outcomes, spent>>

\* lines 199-226: the summary is printed
Report ==
    /\ pc = "report"
    /\ report' = [months |-> SortedItems(month_times),
                  days |-> SortedItems(day_times),
                  total |-> SumValues(month_times),
                  failures |-> failed_customisations,
                  no_failures |-> (failed_customisations = <<>>)]
    /\ pc' = "done"
    /\ UNCHANGED <<inputVars, now, planVars, keyVars, barVars, timingVars,
                   failed_customisations, windowVars, jobVars, remoteVars,
                   downloaded, budget, polled, outcomes, spent>>

Next ==
    \/ PlanStep \/ PlanExit
    \/ ForNext \/ ForExit
    \/ SearchEmpty \/ SearchFound
    \/ Submit
    \/ PollQueued \/ PollRunning \/ PollDone \/ PollError
    \/ RetryDelete \/ RetrySubmit
    \/ DownloadFile \/ FinalDelete
    \/ Raise \/ Except
    \/ StepEnd
    \/ Report

Spec == Init /\ [][Next]_vars

\* download_netcdf runs in one thread and every call it makes returns or
\* raises: a step that can be taken is taken
FairSpec == Spec /\ WF_vars(Next)

\* a run of two time steps across a month boundary whose service keeps jobs
\* waiting long enough for the wait between polls to reach its maximum
InitBackoff ==
    /\ start = At(31, 23, 30)
    /\ step = 30
    /\ end = start + 60
    /\ budget = [raises |-> 1, errors |-> 1, waits |-> BackoffPolls,
                 runs |-> 1]
    /\ Fresh

SpecBackoff == InitBackoff /\ [][Next]_vars

\* ------------------------------------------------------------------ claims
\* a / b rounded up, for b > 0
CeilDiv(a, b) == (a + b - 1) \div b

ValidRange == step > 0 /\ start < end

LastOf(q) == q[Len(q)]

\* the jobs submitted for time step t, the error-class answers they gave, the
\* ledger entries and the files written for t
JobsOf(t) == {submitted[j][2] : j \in {h \in 1..Len(submitted) : submitted[h][1] = t}}

ErrorsPolled(t) ==
    Cardinality({j \in 1..Len(polled) :
                    polled[j][1] \in JobsOf(t) /\ polled[j][2] \in ErrorStatuses})

LedgerOf(t) ==
    Cardinality({j \in 1..Len(failed_customisations) : failed_customisations[j][1] = t})

DownloadsOf(t) == SelectSeq(downloaded, LAMBDA d : d[1] = t)

\* the time step being processed has just been completed by the final delete
Completed == pc = "step_end" /\ LastOf(outcomes) = "completed"

\* C1: for interval > 0 and start < end the planner yields start,
\* start+interval, ... : ceil((end-start)/interval) elements, evenly spaced,
\* strictly increasing, the first one start and the last one before end.
C1_PlannerSequence ==
    (ValidRange /\ pc # "plan") =>
        /\ Len(time_steps) = CeilDiv(end - start, step)
        /\ \A j \in 1..Len(time_steps) : time_steps[j] = start + (j - 1) * step
        /\ \A j \in 1..(Len(time_steps) - 1) : time_steps[j] < time_steps[j + 1]
        /\ time_steps[1] = start
        /\ LastOf(time_steps) < end

C1_Witness ==
    /\ ValidRange
    /\ pc = "for"
    /\ Len(time_steps) = 2
    /\ (end - start) % step # 0

\* C2: with interval <= 0 or start >= end the planning ends in an
\* InvalidRangeError: no time step is ever generated and the run never goes
\* past the planner.
C2_InvalidRangeRejected ==
    ~ValidRange => (time_steps = <<>> /\ pc \in {"plan", "InvalidRangeError"})

\* C3: when the jobs of a time step answered k >= 1 error-class statuses and
\* then DONE, with no exception, the ledger holds k entries for the time step,
\* k+1 jobs were submitted for it, and the files written for it are the NetCDF
\* outputs of the last submitted job, each once.
C3_RetryThenDone ==
    (Completed /\ ErrorsPolled(current_time) >= 1) =>
        LET k == ErrorsPolled(current_time)
            lastJob == LastOf(submitted)[2]
        IN  /\ LedgerOf(current_time) = k
            /\ Cardinality(JobsOf(current_time)) = k + 1
            /\ lastJob \in JobsOf(current_time)
            /\ lastJob \in DOMAIN outputs
            /\ Len(DownloadsOf(current_time)) = Len(NcFiles(outputs[lastJob]))
            /\ \A j \in 1..Len(DownloadsOf(current_time)) :
                  DownloadsOf(current_time)[j] =
                      <<current_time, lastJob, NcFiles(outputs[lastJob])[j]>>

C3_Witness ==
    /\ Completed
    /\ ErrorsPolled(current_time) = 2
    /\ Len(DownloadsOf(current_time)) = 2

\* C4: a time step whose search finds no product submits no job, adds no
\* ledger entry, and adds one to each of the overall, month and day bars and
\* one increment to the timing buckets.
C4_NoProductCounted ==
    [][(pc = "search" /\ pc' = "for") =>
          /\ submitted' = submitted
          /\ failed_customisations' = failed_customisations
          /\ overall_pbar'.n = overall_pbar.n + 1
          /\ current_month_progress'.n = current_month_progress.n + 1
          /\ current_day_progress'.n = current_day_progress.n + 1
          /\ month_key \in DOMAIN month_incs'
          /\ month_incs'[month_key] =
                (IF month_key \in DOMAIN month_incs THEN month_incs[month_key] ELSE 0) + 1
      ]_vars

\* C5: at the end of a run every planned time step has put one timing
\* increment into the bucket of its month and one into the bucket of its day.
C5_OneIncrementPerStep ==
    pc = "done" =>
        \A j \in 1..Len(time_steps) :
            LET mk == MonthKey(time_steps[j])
                dk == DayKey(time_steps[j])
            IN  /\ mk \in DOMAIN month_incs
                /\ month_incs[mk] = MonthStepsIn(mk)
                /\ dk \in DOMAIN day_incs
                /\ day_incs[dk] = DayStepsIn(dk)

\* the sum of the day timings of the days of month mk
DaySum(mk) ==
    SumValues([dk \in {k \in DOMAIN day_times : <<k[1], k[2]>> = mk} |-> day_times[dk]])

\* C6: at the end of a run the day timings of each month add up to the
\* timing of the month.
C6_DaysSumToMonth ==
    pc = "done" =>
        \A j \in 1..Len(time_steps) :
            LET mk == MonthKey(time_steps[j])
            IN  DaySum(mk) = (IF mk \in DOMAIN month_times THEN month_times[mk] ELSE 0)

\* C7: an exception raised inside a time step is caught there: the handler
\* adds no ledger entry, submits nothing, deletes nothing and hands over to the
\* end of the step, which counts the step and returns to the loop; so the
\* loop ends only when every planned time step has been processed.
C7_ExceptionsContained ==
    /\ [][pc = "except" =>
            /\ pc' = "step_end"
            /\ failed_customisations' = failed_customisations
            /\ submitted' = submitted
            /\ idx' = idx]_vars
    /\ [][(pc = "step_end" /\ LastOf(outcomes) = "abandoned") =>
            /\ pc' = "for"
            /\ overall_pbar'.n = overall_pbar.n + 1]_vars
    /\ [](pc \notin {"plan", "for", "search", "submit", "poll", "download", "delete",
                     "retry_delete", "retry_submit", "except", "step_end"} =>
            /\ pc \in {"report", "done"}
            /\ idx = Len(time_steps)
            /\ Len(outcomes) = Len(time_steps)
            /\ overall_pbar.n = Len(time_steps))

C7_Witness ==
    /\ pc = "done"
    /\ Len(outcomes) = 2
    /\ outcomes[1] = "abandoned"
    /\ outcomes[2] = "completed"

\* C8: no job submitted for a time step is left undeleted on the remote
\* service once the processing of the time step has ended.
C8_NoJobLeftBehind ==
    pc \in {"step_end", "for", "report", "done"} => live = {}

\* every time step so far had no product, or one job that answered DONE at
\* its first poll and had one NetCDF output
CleanRun ==
    /\ \A j \in 1..Len(outcomes) : outcomes[j] \in {"no_product", "completed"}
    /\ \A j \in 1..Len(polled) : polled[j][2] = "DONE"
    /\ \A j \in DOMAIN outputs : Len(NcFiles(outputs[j])) = 1

\* C9: in a run where every time step has no product or a job DONE at the
\* first poll with one matching artifact, the files written are as many as
\* the time steps with a product, the ledger is empty and the overall bar
\* ends at N of N.
C9_CleanRun ==
    (pc = "done" /\ CleanRun) =>
        /\ Len(downloaded) = Len(submitted)
        /\ Len(submitted) =
              Cardinality({j \in 1..Len(outcomes) : outcomes[j] = "completed"})
        /\ failed_customisations = <<>>
        /\ overall_pbar.n = Len(time_steps)
        /\ overall_pbar.total = Len(time_steps)

C9_Witness ==
    /\ pc = "done"
    /\ CleanRun
    /\ Len(time_steps) = 2
    /\ outcomes = <<"completed", "no_product">>
    /\ Len(downloaded) = 1

\* C10: the search window of time step T is (T - 5 minutes, T + 5 minutes)
\* and contains T.
C10_WindowBracketsStep ==
    pc \in {"submit", "poll", "download", "delete", "retry_delete", "retry_submit"} =>
        /\ dtstart = current_time - WindowMinutes
        /\ dtend = current_time + WindowMinutes
        /\ dtstart < current_time
        /\ current_time < dtend

\* C11: the ledger only grows, by one entry at a time and only at a poll that
\* answers an error-class status; the entry holds the time step being
\* processed, the job that was polled (still undeleted then, and not the
\* replacement submitted afterwards) and the status answered; every entry
\* stays where it is, unchanged.
C11_LedgerAppendOnly ==
    /\ [][\/ failed_customisations' = failed_customisations
          \/ /\ pc = "poll"
             /\ status' \in ErrorStatuses
             /\ customisation \in live
             /\ LastOf(polled') = <<customisation, status'>>
             /\ failed_customisations' =
                   Append(failed_customisations,
                          <<time_steps[idx], customisation, status'>>)]_vars
    /\ [](\A j \in 1..Len(failed_customisations) :
             /\ failed_customisations[j][2] \in JobsOf(failed_customisations[j][1])
             /\ \E h \in 1..Len(polled) :
                   polled[h] = <<failed_customisations[j][2], failed_customisations[j][3]>>)

C11_Witness ==
    /\ pc = "done"
    /\ Len(failed_customisations) = 2
    /\ failed_customisations[1][1] # failed_customisations[2][1]

\* sum of the values of a sequence of <<key, value>> lines
RECURSIVE LinesTotal(_)
LinesTotal(lines) ==
    IF lines = <<>> THEN 0 ELSE lines[1][2] + LinesTotal(Tail(lines))

Ascending(lines) ==
    \A j \in 1..(Len(lines) - 1) : KeyLess(lines[j][1], lines[j + 1][1])

\* C12: a report exists only once every planned time step has been processed;
\* its grand total is the sum of the month lines, which are the month buckets;
\* month and day lines are in ascending key order; it lists the ledger, one
\* line per record, and carries the no-failures message exactly when the
\* ledger is empty.
C12_ReportContent ==
    report # <<>> =>
        /\ idx = Len(time_steps)
        /\ Len(outcomes) = Len(time_steps)
        /\ {report.months[j][1] : j \in 1..Len(report.months)} = DOMAIN month_times
        /\ \A j \in 1..Len(report.months) :
              report.months[j][2] = month_times[report.months[j][1]]
        /\ {report.days[j][1] : j \in 1..Len(report.days)} = DOMAIN day_times
        /\ report.total = LinesTotal(report.months)
        /\ Ascending(report.months)
        /\ Ascending(report.days)
        /\ report.failures = failed_customisations
        /\ Len(report.failures) =
              Cardinality({j \in 1..Len(polled) : polled[j][2] \in ErrorStatuses})
        /\ report.no_failures <=> (failed_customisations = <<>>)

C12_Witness ==
    /\ report # <<>>
    /\ Len(report.months) = 2
    /\ Len(report.failures) = 2
    /\ report.total > 0

\* the positions of the polling loop of one time step (lines 114-164)
PollLoop == {"poll", "retry_delete", "retry_submit"}

\* C13: unless an exception is raised, the polling loop is left only by a
\* poll that answers DONE; a poll that answers QUEUED, RUNNING or a status of
\* the error class stays in the loop, on the same time step, which is neither
\* ended nor followed by the next one.
C13_OnlyDoneLeavesLoop ==
    [][/\ (pc \in PollLoop /\ pc' \notin PollLoop /\ pc' # "except")
            => (pc = "poll" /\ status' = "DONE" /\ LastOf(polled') = <<customisation, "DONE">>)
       /\ (pc = "poll" /\ polled' # polled /\ LastOf(polled')[2] # "DONE")
            => /\ pc' \in PollLoop
               /\ idx' = idx
               /\ current_time' = current_time
               /\ outcomes' = outcomes
               /\ overall_pbar' = overall_pbar
       /\ (pc \in PollLoop /\ pc' \in PollLoop)
            => (idx' = idx /\ current_time' = current_time /\ outcomes' = outcomes)]_vars

C13_Witness ==
    /\ pc = "download"
    /\ ErrorsPolled(current_time) = 1
    /\ \E j \in 1..Len(polled) : polled[j][2] = "QUEUED"
    /\ idx = 2

QueuedPolls == Cardinality({j \in 1..Len(polled) : polled[j][2] = "QUEUED"})

\* C14: once a job has been submitted the wait between polls lies in 5..10;
\* the first submission of a time step sets it to 5; a poll answering QUEUED
\* adds 1 up to 10, and the program then sleeps that long; a poll answering
\* RUNNING or a status of the error class, and the resubmission, keep it;
\* inside the polling loop it never decreases.
C14_PollWait ==
    /\ [](next_id > 1 => sleep_time \in InitialSleep..MaxSleep)
    /\ [][/\ (pc = "submit" /\ pc' = "poll") => sleep_time' = InitialSleep
          /\ (pc = "poll" /\ polled' # polled /\ LastOf(polled')[2] = "QUEUED")
                => /\ sleep_time' = IF sleep_time = MaxSleep THEN MaxSleep
                                    ELSE sleep_time + 1
                   /\ now' = now + sleep_time'
          /\ (pc = "poll" /\ polled' # polled /\ LastOf(polled')[2] = "RUNNING")
                => (sleep_time' = sleep_time /\ now' = now + sleep_time)
          /\ (pc = "poll" /\ polled' # polled /\ LastOf(polled')[2] \in ErrorStatuses)
                => sleep_time' = sleep_time
          /\ (pc = "retry_submit" /\ pc' = "poll") => sleep_time' = sleep_time
          /\ (pc \in PollLoop) => sleep_time' >= sleep_time]_vars

C14_Witness ==
    /\ idx = 2
    /\ pc = "poll"
    /\ sleep_time = InitialSleep
    /\ QueuedPolls = 6
    /\ \A j \in 1..Len(polled) : polled[j][1] \in JobsOf(time_steps[1])
    /\ LedgerOf(time_steps[1]) = 1

NoException ==
    /\ pc # "except"
    /\ \A j \in 1..Len(outcomes) : outcomes[j] # "abandoned"

\* C15: after a poll that answers a status of the error class the ledger
\* entry is appended first (the job still on the service), then the job is
\* deleted, then a new job is submitted for the same time step and the same
\* search window; the clock does not advance in between (no sleep); as long
\* as no exception was raised at most one job is on the service.
C15_RecordDeleteResubmit ==
    /\ [][/\ (pc = "poll" /\ polled' # polled /\ LastOf(polled')[2] \in ErrorStatuses)
                => /\ pc' = "retry_delete"
                   /\ Len(failed_customisations') = Len(failed_customisations) + 1
                   /\ LastOf(failed_customisations')[2] = customisation
                   /\ customisation \in live'
                   /\ UNCHANGED <<now, remoteVars, customisation>>
          /\ (pc = "retry_delete" /\ pc' # "except")
                => /\ pc' = "retry_submit"
                   /\ customisation \in live
                   /\ live' = live \ {customisation}
                   /\ UNCHANGED <<now, failed_customisations, submitted, next_id>>
          /\ (pc = "retry_submit" /\ pc' # "except")
                => /\ pc' = "poll"
                   /\ customisation' \notin JobsOf(current_time)
                   /\ submitted' = Append(submitted, <<current_time, customisation'>>)
                   /\ live' = live \cup {customisation'}
                   /\ UNCHANGED <<now, failed_customisations, current_time, idx,
                                  windowVars, polled>>]_vars
    /\ [](NoException => Cardinality(live) <= 1)
    /\ [](NoException /\ pc = "retry_submit" => live = {})

C15_Witness ==
    /\ pc = "poll"
    /\ NoException
    /\ LedgerOf(current_time) = 2
    /\ live = {customisation}
    /\ Cardinality(JobsOf(current_time)) = 3

\* the files downloaded from job c, in download order
FilesOf(c) ==
    LET sel == SelectSeq(downloaded, LAMBDA d : d[2] = c)
    IN  [j \in 1..Len(sel) |-> sel[j][3]]

\* the jobs that a poll has found DONE
DoneJobs == {polled[j][1] : j \in {h \in 1..Len(polled) : polled[h][2] = "DONE"}}

\* C16: once the time step of a job found DONE has been counted on the
\* progress bars, every .nc output of the job, and nothing else, has been
\* downloaded and the job has been deleted.
C16_DownloadThenDelete ==
    pc \in {"for", "report", "done"} =>
        \A c \in DoneJobs :
           /\ c \notin live
           /\ FilesOf(c) = NcFiles(outputs[c])

\* how many of the first n planned time steps have month key k, day key k
MonthStepsUpTo(n, k) ==
    Cardinality({j \in 1..n : MonthKey(time_steps[j]) = k})

DayStepsUpTo(n, k) ==
    Cardinality({j \in 1..n : DayKey(time_steps[j]) = k})

\* the time steps counted so far: all those begun, but for the one in progress
Counted == IF pc \in {"for", "report", "done"} THEN idx ELSE idx - 1

\* C17: every processed time step, whatever its outcome, adds exactly one to
\* the overall bar and to the bars of its month and of its day; at the head of
\* the loop a month (day) bar is replaced by a fresh one at zero, sized to the
\* planned time steps of the new key, exactly when the key of the time step
\* differs from that of the active bar (or there is none); every closed bar has
\* n = total, and the overall bar is closed at N/N.
C17_ProgressCounters ==
    /\ [](idx >= 1 =>
             /\ overall_pbar.n = Counted
             /\ overall_pbar.total = Len(time_steps)
             /\ Counted \in {Len(outcomes), Len(outcomes) - 1}
             /\ DescKey(current_month_progress) = MonthKey(time_steps[idx])
             /\ DescKey(current_day_progress) = DayKey(time_steps[idx])
             /\ current_month_progress.n = MonthStepsUpTo(Counted, month_key)
             /\ current_day_progress.n = DayStepsUpTo(Counted, day_key)
             /\ current_month_progress.total = MonthStepsUpTo(Len(time_steps), month_key)
             /\ current_day_progress.total = DayStepsUpTo(Len(time_steps), day_key))
    /\ [](\A j \in 1..Len(closed_bars) : closed_bars[j].n = closed_bars[j].total)
    /\ [](pc \in {"report", "done"} =>
             /\ LastOf(closed_bars) = overall_pbar
             /\ overall_pbar.n = Len(time_steps)
             /\ Len(outcomes) = Len(time_steps))
    /\ [][(pc = "for" /\ pc' = "search" /\ idx >= 1) =>
             /\ IF MonthKey(time_steps[idx']) # month_key
                THEN /\ current_month_progress'.n = 0
                     /\ current_month_progress # current_month_progress'
                     /\ \E j \in 1..Len(closed_bars') :
                           /\ j > Len(closed_bars)
                           /\ closed_bars'[j] = current_month_progress
                ELSE current_month_progress' = current_month_progress
             /\ IF DayKey(time_steps[idx']) # day_key
                THEN /\ current_day_progress'.n = 0
                     /\ current_day_progress # current_day_progress'
                     /\ \E j \in 1..Len(closed_bars') :
                           /\ j > Len(closed_bars)
                           /\ closed_bars'[j] = current_day_progress
                ELSE current_day_progress' = current_day_progress]_vars

C17_Witness ==
    /\ pc = "done"
    /\ Len(closed_bars) = 5
    /\ outcomes = <<"no_product", "abandoned">>
    /\ MonthKey(time_steps[1]) # MonthKey(time_steps[2])

\* the time spent on the planned time steps j..Len(time_steps) of day k
RECURSIVE DayElapsedFrom(_, _)
DayElapsedFrom(j, k) ==
    IF j > Len(spent) THEN 0
    ELSE (IF DayKey(time_steps[j]) = k THEN spent[j] ELSE 0) + DayElapsedFrom(j + 1, k)

PlannedDays == {DayKey(time_steps[j]) : j \in 1..Len(time_steps)}

\* C18: when the report is made the day timing map has an entry for every
\* day with a planned time step, and the entry of a day is the time that
\* passed while the time steps of that day were processed.
C18_DayTimings ==
    pc \in {"report", "done"} =>
        \A k \in PlannedDays :
           /\ k \in DOMAIN day_times
           /\ day_times[k] = DayElapsedFrom(1, k)

\* C20: the planned time steps are strictly increasing and are processed one
\* at a time in that order, each once: a time step begins only at the head of
\* the loop, when all earlier ones have their outcome; every search, submission,
\* poll and download is for the time step in progress, so none is for an
\* earlier time step once a later one has begun.
C20_OneAtATimeInOrder ==
    /\ [](pc # "plan" =>
             /\ \A i, j \in 1..Len(time_steps) : i < j => time_steps[i] < time_steps[j]
             /\ idx >= 1 => current_time = time_steps[idx]
             /\ Len(outcomes) = IF pc = "step_end" THEN idx ELSE Counted
             /\ \A j \in 1..Len(submitted) :
                   \E n \in 1..idx : submitted[j][1] = time_steps[n]
             /\ \A i, j \in 1..Len(submitted) :
                   i < j => submitted[i][1] <= submitted[j][1]
             /\ \A i, j \in 1..Len(downloaded) :
                   i < j => downloaded[i][1] <= downloaded[j][1])
    /\ [](pc \in {"report", "done"} => Len(outcomes) = Len(time_steps))
    /\ [][/\ (idx' # idx)
                => (pc = "for" /\ idx' = idx + 1 /\ Len(outcomes) = idx)
          /\ (pc' = "search" /\ pc # "search")
                => (pc = "for" /\ idx' = idx + 1)
          /\ (Len(outcomes') # Len(outcomes))
                => (Len(outcomes') = idx /\ Len(outcomes) = idx - 1)
          /\ (submitted' # submitted)
                => (idx' = idx /\ LastOf(submitted')[1] = time_steps[idx])
          /\ (polled' # polled)
                => (idx' = idx /\ LastOf(polled')[1] \in JobsOf(time_steps[idx]))
          /\ (downloaded' # downloaded)
                => (idx' = idx /\ LastOf(downloaded')[1] = time_steps[idx])]_vars

C20_Witness ==
    /\ idx = 2
    /\ pc = "poll"
    /\ outcomes = <<"completed">>
    /\ Cardinality(JobsOf(time_steps[1])) = 2
    /\ JobsOf(time_steps[2]) = {customisation}
    /\ live = {customisation}

\* C19: with a valid range, a service that answers DONE (or a call that
\* raises) after finitely many QUEUED, RUNNING and error-class answers lets
\* the run process every planned time step and make the report; the program
\* itself sets no limit to the resubmissions: whenever the service answers a
\* status of the error class the job is recorded, deleted and submitted again
\* for the same time step, however many were recorded before, and no later
\* time step begins meanwhile.
C19_TerminationAndStall ==
    /\ ValidRange => <>(/\ pc = "done"
                        /\ report # <<>>
                        /\ Len(time_steps) >= 1
                        /\ Len(outcomes) = Len(time_steps))
    /\ [](pc = "poll" /\ budget.errors > 0 => ENABLED PollError)
    /\ [](pc = "retry_delete" => ENABLED RetryDelete)
    /\ [](pc = "retry_submit" => ENABLED RetrySubmit)
    /\ [][(pc = "poll" /\ polled' # polled /\ LastOf(polled')[2] \in ErrorStatuses)
             => /\ pc' = "retry_delete"
                /\ LedgerOf(current_time)' = LedgerOf(current_time) + 1
                /\ UNCHANGED <<idx, current_time, outcomes>>]_vars
    /\ [][(pc \in {"retry_delete", "retry_submit"})
             => /\ pc' \in {"retry_submit", "poll", "except"}
                /\ UNCHANGED <<idx, current_time, outcomes>>]_vars

C19_Witness ==
    /\ pc = "done"
    /\ report # <<>>
    /\ Len(time_steps) = 2
    /\ LedgerOf(time_steps[1]) = MaxErrors
    /\ outcomes = <<"completed", "completed">>
====
